---- MODULE Spec2Model ----
(***************************************************************************)
(* The ingest servers of the oracles repository: the request handlers of   *)
(* the three gRPC servers (ingest/src/server/iot.rs, ingest/src/           *)
(* server_iot.rs, ingest/src/server_5g.rs), the file sinks they write to   *)
(* and the shutdown signal they share.                                     *)
(*                                                                         *)
(* The handlers and the wiring are translated from the sources.  The file  *)
(* sink (file_store::file_sink), MsgVerify (file_store::traits) and        *)
(* EventId (ingest::event_id) are not among the sources; they are modelled *)
(* from the design document and marked so where they are defined.          *)
(***************************************************************************)
EXTENDS Integers, Sequences, FiniteSets, TLC

(* ------------------------------ bounds --------------------------------- *)

\* Number of requests a LoRa server is sent over a run.
MaxRequests == 2

\* Number of requests the mobile server is sent over a run; each of them
\* writes to two sinks.
MaxMobileRequests == 1

\* Last instant of the millisecond clock (Utc::now().timestamp_millis()).
MaxClock == 1

\* Capacity of a sink channel.  The wiring passes 50 to
\* file_sink::message_channel; the model scales it down.
Capacity == 1

\* Rotation window of a segment, in clock instants (5 minutes in the wiring).
RollTime == 0

\* Rotation size threshold of a segment, in records.
MaxSegmentSize == 1

\* Number of uploads the shipper runs at a time.
MaxUploads == 2

\* The retry bound of an upload: the attempts made before it gives up.
MaxAttempts == 2

\* Number of times the process is killed over a run.
MaxCrashes == 1

\* Number of sealed segments the disk holds when the process starts.
MaxOnDisk == 2

(* ------------------------------- state --------------------------------- *)

VARIABLES
    mode,              \* which server runs: "iot", "iot_legacy" or "mobile"
    required_network,  \* settings.network of the deployment
    now,               \* the wall clock, in milliseconds
    shutdown,          \* the triggered::Listener: TRUE once triggered
    server,            \* the tonic server: "serving" or "stopped"
    req,               \* req[r]: the handler of request r
    queue,             \* queue[s]: the channel of sink s
    open,              \* open[s]: the open segment of sink s
    sealed,            \* sealed[s]: the sealed segments of sink s, oldest first
    sink,              \* sink[s]: "open" or "closed"
    enqLog,            \* history: the records enqueued on s, in order of success
    dropped,           \* history: number of records of s whose append failed
    shipper,           \* the file_upload task: "running", "stopping", "exited", "down"
    task,              \* task[u]: the upload u of the shipper
    claimed,           \* disk: the sealed segments moved to the pending directory
    deleted,           \* disk: the sealed segments whose local file is deleted
    remote,            \* remote[id]: the puts of segment id the remote store acknowledged
    exhausted,         \* history: the segments whose bounded retry once ran out
    crashes,           \* history: number of times the process was killed
    returned           \* what run returned: Pending until it returns

vars == <<mode, required_network, now, shutdown, server, req, queue, open,
          sealed, sink, enqLog, dropped, shipper, task, claimed, deleted, remote,
          exhausted, crashes, returned>>

sinkVars == <<queue, open, sealed, sink, enqLog, dropped>>

shipVars == <<shipper, task, claimed, deleted, remote, exhausted, crashes>>

(* ------------------------------ values --------------------------------- *)

Modes == {"iot", "iot_legacy", "mobile"}

Networks == {"MainNet", "TestNet"}

\* The handlers of a run; a server uses those its request bound allows.
Handlers == (1..MaxRequests) \cup (1..MaxMobileRequests)

Requests == 1..(IF mode = "mobile" THEN MaxMobileRequests ELSE MaxRequests)

NoTime == 0 - 1

\* Utc::now(): what the clock may show when it is read; time has passed by any
\* amount since the last reading.
Later == now..MaxClock

\* The binary form of a helium_crypto public key: the first byte holds the
\* network in its high nibble (0 main, 1 test), the rest is the key.
MainNetKey == <<0, 7>>

TestNetKey == <<16, 7>>

KeyInputs == {<<>>, MainNetKey, TestNetKey}

Payloads == {<<1>>}

\* The bytes a signature covers: the message with its signature field empty.
SignedBytes(pub_key, payload) == [pub_key |-> pub_key, payload |-> payload, signature |-> <<>>]

\* An ideal signature: it names its signer and the bytes it was made over.
Sign(signer, msg) == [signer |-> signer, over |-> <<msg.pub_key, msg.payload>>]

SignatureInputs(pub_key, payload) ==
    {Sign(k, SignedBytes(pub_key, payload)) : k \in {MainNetKey, TestNetKey}}

\* PublicKey::try_from(&[u8]).
PublicKeyTryFrom(bytes) ==
    IF Len(bytes) = 2 /\ bytes[1] \in {0, 16}
    THEN [ok |-> TRUE, network |-> IF bytes[1] \div 16 = 0 THEN "MainNet" ELSE "TestNet",
          bytes |-> bytes]
    ELSE [ok |-> FALSE, network |-> "none", bytes |-> bytes]

\* MsgVerify::verify: the signature validates over the message with the
\* signature field cleared.
MsgVerify(event, public_key) ==
    event.signature = Sign(public_key.bytes, SignedBytes(event.pub_key, event.payload))

\* Sha256::digest, idealised as collision free: the digest stands for its input.
Sha256(bytes) == [alg |-> "sha256", input |-> bytes]

NoId == [alg |-> "none", input |-> <<>>]

RECURSIVE Digits(_)
\* u64::to_string: the decimal digits, as character codes.
Digits(n) == IF n < 10 THEN <<48 + n>> ELSE Digits(n \div 10) \o <<48 + (n % 10)>>

\* The id of the legacy LoRa server: the text of the timestamp.
TextId(n) == [alg |-> "text", input |-> Digits(n)]

\* EventId::from(&event): a digest of the event alone; the caller hands it no
\* timestamp.
EventIdFrom(event) == Sha256(event.payload \o event.pub_key)

\* Two decimal digits, as character codes.
TwoDigits(n) == <<48 + (n \div 10), 48 + (n % 10)>>

\* A DateTime<Utc> on the first of January of `year`, `ms` milliseconds into
\* the day.
DateTime(year, ms) == [year |-> year, ms |-> ms]

\* to_timestamp_millis: the instant a u64 of milliseconds stands for; the
\* clock readings met here fall on 1970-01-01.
FromMillis(ms) == DateTime(1970, ms)

\* chrono's year: four digits from 0 to 9999, a sign and the digits beyond.
YearToString(year) ==
    IF year \in 0..9999
    THEN TwoDigits(year \div 100) \o TwoDigits(year % 100)
    ELSE <<43>> \o Digits(year)

\* DateTime<Utc>::to_string, "%Y-%m-%d %H:%M:%S%.f UTC": the fraction is left
\* out when it is zero and has three digits for whole milliseconds.
DateTimeToString(dt) ==
    LET secs == dt.ms \div 1000
        frac == dt.ms % 1000
    IN  YearToString(dt.year) \o <<45, 48, 49, 45, 48, 49, 32>>
        \o TwoDigits(secs \div 3600) \o <<58>>
        \o TwoDigits((secs \div 60) % 60) \o <<58>>
        \o TwoDigits(secs % 60)
        \o (IF frac = 0 THEN <<>> ELSE <<46, 48 + (frac \div 100)>> \o TwoDigits(frac % 100))
        \o <<32, 85, 84, 67>>

\* LoraWitnessReport::generate_id: the digest of the data, the text of the
\* received timestamp and the key bytes.
generate_id(data, received_ts, pub_key) ==
    Sha256(data \o DateTimeToString(received_ts) \o pub_key)

(* -------------------------- verification gate -------------------------- *)

Accepted(key) == [err |-> "", key |-> key]

Rejected(msg, key) == [err |-> msg, key |-> key]

decode_pub_key(data) ==
    LET k == PublicKeyTryFrom(data)
    IN  IF k.ok THEN Accepted(k) ELSE Rejected("invalid public key", k)

\* verify_network with the comparison lost.
verify_network_Any(public_key) == Accepted(public_key)

verify_network(public_key) ==
    IF required_network = public_key.network
    THEN Accepted(public_key)
    ELSE Rejected("invalid network", public_key)

verify_signature(pub_key, event) ==
    IF MsgVerify(event, pub_key)
    THEN Accepted(pub_key)
    ELSE Rejected("invalid signature", pub_key)

\* LoraGate with the signature checked before the network.
LoraGate_SignatureFirst(event) ==
    LET decoded == decode_pub_key(event.pub_key)
        signed == verify_signature(decoded.key, event)
    IN  IF decoded.err # "" THEN decoded
        ELSE IF signed.err # "" THEN signed
        ELSE verify_network(signed.key)

\* The gate of both LoRa servers: decode, then network, then signature, each
\* followed by `?`.
LoraGate(event) ==
    LET decoded == decode_pub_key(event.pub_key)
        networked == verify_network(decoded.key)
    IN  IF decoded.err # "" THEN decoded
        ELSE IF networked.err # "" THEN networked
        ELSE verify_signature(networked.key, event)

\* The gate of the mobile server: decode, then signature.
MobileGate(event) ==
    LET decoded == decode_pub_key(event.pub_key)
    IN  IF decoded.err # "" THEN decoded ELSE verify_signature(decoded.key, event)

(* ------------------------------- sinks --------------------------------- *)

LoraSinks == {"beacon_report", "witness_report"}

MobileReqSinks == {"heartbeat_req", "speedtest_req"}

MobileReportSinks == {"heartbeat_report", "speedtest_report"}

AllSinks == LoraSinks \cup MobileReqSinks \cup MobileReportSinks

\* Sinks with the witness sink's task left out of the join.
Sinks_Unjoined ==
    IF mode = "mobile" THEN MobileReqSinks \cup MobileReportSinks ELSE {"beacon_report"}

\* The sinks whose tasks the running server starts and joins.
Sinks == IF mode = "mobile" THEN MobileReqSinks \cup MobileReportSinks ELSE LoraSinks

\* The sinks that hold IngestReports (records with a received_timestamp).
ReportSinks == IF mode = "mobile" THEN MobileReportSinks ELSE LoraSinks

Kinds == IF mode = "mobile" THEN {"speedtest", "heartbeat"} ELSE {"beacon", "witness"}

ReportSink(kind) ==
    CASE kind = "beacon" -> "beacon_report"
      [] kind = "witness" -> "witness_report"
      [] kind = "speedtest" -> "speedtest_report"
      [] kind = "heartbeat" -> "heartbeat_report"

ReqSink(kind) == IF kind = "speedtest" THEN "speedtest_req" ELSE "heartbeat_req"

NoSegment == [created |-> NoTime, records |-> <<>>]

\* ChannelCapacity with the witness channel made one slot too large.
ChannelCapacity_Larger(s) == IF s = "witness_report" THEN Capacity + 1 ELSE Capacity

\* file_sink::message_channel(50): the capacity each sink's channel is made with.
ChannelCapacity(s) == Capacity

IngestReport(received_timestamp, event) ==
    [received_timestamp |-> received_timestamp, report |-> event]

\* file_sink::write on a channel with room: the record joins the queue.
SendOk(s, rec) ==
    /\ sink[s] = "open"
    /\ Len(queue[s]) < ChannelCapacity(s)
    /\ queue' = [queue EXCEPT ![s] = Append(@, rec)]
    /\ enqLog' = [enqLog EXCEPT ![s] = Append(@, rec)]
    /\ UNCHANGED <<open, sealed, sink, dropped>>

\* file_sink::write on a sink that is shutting down: SINK_CLOSED.
SendClosed(s) ==
    /\ sink[s] # "open"
    /\ UNCHANGED sinkVars

\* file_sink::write on a full channel: the caller is suspended.
SendFull(s) ==
    /\ sink[s] = "open"
    /\ Len(queue[s]) >= ChannelCapacity(s)


\* A sink seals at most one segment per record it is sent.
MaxSegments == MaxRequests + MaxMobileRequests

\* The names of segments: the sink and the sequence number within the sink.
SegmentIds == AllSinks \X (1..MaxSegments)

\* The segments sealed so far.
SealedSegments == {id \in SegmentIds : id[2] <= Len(sealed[id[1]])}

\* The shipper's concurrent uploads.
Uploads == 1..MaxUploads

NoSegmentId == <<"none", 0>>

NoUpload == [seg |-> NoSegmentId, state |-> "idle", attempts |-> 0]

(* ------------------------------ handlers ------------------------------- *)

NoEvent ==
    [pub_key |-> <<>>, payload |-> <<>>, signature |-> Sign(<<>>, SignedBytes(<<>>, <<>>))]

NoResponse == [status |-> "none", id |-> NoId]

\* Ok(Response::new(id)).
OkResponse(id) == [status |-> "ok", id |-> id]

\* Err(Status::invalid_argument(msg)).
ErrResponse(msg) == [status |-> msg, id |-> NoId]

\* req.metadata().get("authorization") of a request without the header.
NoAuth == ""

\* format!("Bearer {}", token) of the configured API_TOKEN.
ApiToken == "Bearer token"

\* The authorization headers a client may send: none, the configured one,
\* another one.
AuthInputs == {NoAuth, ApiToken, "Bearer other"}

Idle ==
    [pc |-> "idle", kind |-> "none", auth |-> NoAuth, event |-> NoEvent,
     timestamp |-> NoTime, verified |-> FALSE, event_id |-> NoId, sent |-> <<>>,
     resp |-> NoResponse]

\* The handler's future after its response has left: nothing of it remains.
Gone == [Idle EXCEPT !.pc = "gone"]

\* The requests a client may send: any key bytes, signed by either key.  An
\* undecodable key has no valid signature, so one signature stands for all.
EventInputs ==
    UNION {{[pub_key |-> k, payload |-> p, signature |-> s] :
               s \in IF k = <<>> THEN {Sign(MainNetKey, SignedBytes(k, p))}
                                 ELSE SignatureInputs(k, p)} :
           <<k, p>> \in KeyInputs \X Payloads}

\* tokio::try_join!(server, sinks.., file_upload): pending while no future
\* has failed and one is still running.
Pending == [status |-> "pending", error |-> "none"]

\* Every joined future returned Ok: run returns Ok(()).
Ok == [status |-> "ok", error |-> "none"]

\* The future of task t returned Err: run returns its error.
Err(t) == [status |-> "err", error |-> t]

\* The joined futures that have returned Err.
Failed(srv, snk, shp) ==
    (IF srv = "failed" THEN {"server"} ELSE {})
        \cup {s \in Sinks : snk[s] = "failed"}
        \cup (IF shp = "failed" THEN {"file_upload"} ELSE {})

\* try_join with the sinks' errors left out.
try_join_SinksIgnored(srv, snk, shp) ==
    LET failed == Failed(srv, snk, shp) \ Sinks
    IN  IF failed # {} THEN Err(CHOOSE f \in failed : TRUE)
        ELSE IF srv = "stopped" /\ shp = "exited" /\ \A s \in Sinks : snk[s] = "closed"
             THEN Ok
             ELSE Pending

\* What try_join! yields when the server, the sinks and the shipper stand as
\* given: the error of a future that failed, Ok when all have returned Ok.
try_join(srv, snk, shp) ==
    LET failed == Failed(srv, snk, shp)
    IN  IF failed # {} THEN Err(CHOOSE f \in failed : TRUE)
        ELSE IF srv = "stopped" /\ shp = "exited" /\ \A s \in Sinks : snk[s] = "closed"
             THEN Ok
             ELSE Pending

\* run has not returned: the futures it joined are still polled.
Alive == returned = Pending

\* A response leaves as soon as its handler has returned: Reply is taken before
\* any other step.  Reply touches the finished handler alone, so this costs no
\* behaviour of the sinks or of the other handlers.
Quiet == \A r \in Handlers : req[r].pc # "done"

\* Accepts with the signal ignored.
Accepts_AfterShutdown(r) ==
    /\ Quiet
    /\ r \in Requests
    /\ server = "serving"
    /\ req[r].pc = "idle"
    /\ \A q \in Requests : q < r => req[q].pc # "idle"

\* The tonic server hands a request to a handler until it sees the signal.
Accepts(r) ==
    /\ Quiet
    /\ r \in Requests
    /\ server = "serving"
    /\ ~shutdown
    /\ req[r].pc = "idle"
    /\ \A q \in Requests : q < r => req[q].pc # "idle"

\* request.into_inner().
Arrived(kind, event) == [Idle EXCEPT !.kind = kind, !.event = event]

\* The handler returns `resp`.
Return(h, resp) == [h EXCEPT !.pc = "done", !.resp = resp]

\* file_sink::write(..).await: the handler goes on, as `queued`, when the
\* record is queued, or, as `refused`, when the sink is closed; while the
\* channel is full it stays suspended.
Write(r, s, rec, queued, refused) ==
    \/ /\ SendOk(s, rec)
       /\ req' = [req EXCEPT ![r] = queued]
    \/ /\ SendClosed(s)
       /\ req' = [req EXCEPT ![r] = refused]

\* ingest/src/server/iot.rs: submit_lora_beacon and submit_lora_witness.

\* IotGated with the gate's error dropped instead of returned.
IotGated_Unchecked(h, t) ==
    [h EXCEPT !.pc = "write", !.verified = TRUE,
              !.event_id = EventIdFrom(h.event), !.timestamp = t]

\* From the request to the write: the gate, then the id and the clock.
IotGated(h, t) ==
    LET res == LoraGate(h.event)
    IN  IF res.err # ""
        THEN Return(h, ErrResponse(res.err))
        ELSE [h EXCEPT !.pc = "write", !.verified = TRUE,
                       !.event_id = EventIdFrom(h.event), !.timestamp = t]

IotSubmit(r) ==
    /\ Alive
    /\ mode = "iot"
    /\ Accepts(r)
    /\ \E kind \in Kinds, event \in EventInputs, t \in Later :
          /\ req' = [req EXCEPT ![r] = IotGated(Arrived(kind, event), t)]
          /\ now' = IF req'[r].timestamp = t THEN t ELSE now
    /\ UNCHANGED <<shipVars, returned, mode, required_network, shutdown, server, sinkVars>>

\* IotRespond with the write's error returned to the client.
IotRespond_Propagate(h, result) ==
    [Return(h, IF result = "ok" THEN OkResponse(h.event_id) ELSE ErrResponse("sink closed"))
        EXCEPT !.sent = Append(@, result)]

IotRespond(h, result) ==
    [Return(h, OkResponse(h.event_id)) EXCEPT !.sent = Append(@, result)]

IotWrite(r) ==
    LET h == req[r]
    IN  /\ Alive
        /\ mode = "iot"
        /\ Quiet
        /\ h.pc = "write"
        /\ Write(r, ReportSink(h.kind), IngestReport(h.timestamp, h.event),
                 IotRespond(h, "ok"), IotRespond(h, "closed"))
        /\ UNCHANGED <<shipVars, returned, mode, required_network, now, shutdown, server>>

\* ingest/src/server_iot.rs: submit_lora_beacon and submit_lora_witness.

\* From the request to the write: the clock, then the gate.
LegacyGated(h, t) ==
    LET stamped == [h EXCEPT !.timestamp = t]
        res == LoraGate(h.event)
    IN  IF res.err # ""
        THEN Return(stamped, ErrResponse(res.err))
        ELSE [stamped EXCEPT !.pc = "write", !.verified = TRUE]

LegacySubmit(r) ==
    /\ Alive
    /\ mode = "iot_legacy"
    /\ Accepts(r)
    /\ \E kind \in Kinds, event \in EventInputs, t \in Later :
          /\ req' = [req EXCEPT ![r] = LegacyGated(Arrived(kind, event), t)]
          /\ now' = t
    /\ UNCHANGED <<shipVars, returned, mode, required_network, shutdown, server, sinkVars>>

LegacyRespond(h, result) ==
    [Return(h, OkResponse(TextId(h.timestamp))) EXCEPT !.sent = Append(@, result)]

LegacyWrite(r) ==
    LET h == req[r]
    IN  /\ Alive
        /\ mode = "iot_legacy"
        /\ Quiet
        /\ h.pc = "write"
        /\ Write(r, ReportSink(h.kind), IngestReport(h.timestamp, h.event),
                 LegacyRespond(h, "ok"), LegacyRespond(h, "closed"))
        /\ UNCHANGED <<shipVars, returned, mode, required_network, now, shutdown, server>>

\* ingest/src/server_5g.rs: submit_speedtest and submit_cell_heartbeat.

\* From the request to the first write: the clock, then the gate, then the id.
MobileGated(h, t) ==
    LET stamped == [h EXCEPT !.timestamp = t]
        res == MobileGate(h.event)
    IN  IF res.err # ""
        THEN Return(stamped, ErrResponse(res.err))
        ELSE [stamped EXCEPT !.pc = "write_req", !.verified = TRUE,
                             !.event_id = EventIdFrom(h.event)]

\* The interceptor with every request let through.
Interceptor_Open(auth) == ""

\* with_interceptor(grpc_server, ..): the error a request is turned away
\* with, "" when its authorization header is the configured token.
Interceptor(auth) == IF auth = ApiToken THEN "" ELSE "No valid auth token"

\* A request through the interceptor: turned away before its body is decoded
\* and its handler called, or handed to the handler.
MobileIntercepted(auth, kind, event, t) ==
    IF Interceptor(auth) # ""
    THEN Return([Idle EXCEPT !.auth = auth], ErrResponse(Interceptor(auth)))
    ELSE MobileGated([Arrived(kind, event) EXCEPT !.auth = auth], t)

\* A request that carries the configured token.
MobileSubmit(r) ==
    /\ Alive
    /\ mode = "mobile"
    /\ Accepts(r)
    /\ \E kind \in Kinds, event \in EventInputs, t \in Later :
          /\ req' = [req EXCEPT ![r] = MobileIntercepted(ApiToken, kind, event, t)]
          /\ now' = t
    /\ UNCHANGED <<shipVars, returned, mode, required_network, shutdown, server, sinkVars>>

\* A request with any authorization header, or none.
MobileCall(r) ==
    /\ Alive
    /\ mode = "mobile"
    /\ Accepts(r)
    /\ \E auth \in AuthInputs, kind \in Kinds, event \in EventInputs, t \in Later :
          /\ req' = [req EXCEPT ![r] = MobileIntercepted(auth, kind, event, t)]
          /\ now' = IF req'[r].timestamp = t THEN t ELSE now
    /\ UNCHANGED <<shipVars, returned, mode, required_network, shutdown, server, sinkVars>>

\* MobileLogged with the first write's error returned to the client.
MobileLogged_Abort(h, result) ==
    IF result = "ok"
    THEN [h EXCEPT !.pc = "write_report", !.sent = Append(@, result)]
    ELSE [Return(h, ErrResponse("sink closed")) EXCEPT !.sent = Append(@, result)]

\* Err(err) => tracing::error!(..): the handler goes on to the second write.
MobileLogged(h, result) ==
    [h EXCEPT !.pc = "write_report", !.sent = Append(@, result)]

MobileWriteReq(r) ==
    LET h == req[r]
    IN  /\ Alive
        /\ mode = "mobile"
        /\ Quiet
        /\ h.pc = "write_req"
        /\ Write(r, ReqSink(h.kind), h.event, MobileLogged(h, "ok"), MobileLogged(h, "closed"))
        /\ UNCHANGED <<shipVars, returned, mode, required_network, now, shutdown, server>>

MobileRespond(h, result) ==
    [Return(h, OkResponse(h.event_id)) EXCEPT !.sent = Append(@, result)]

MobileWriteReport(r) ==
    LET h == req[r]
    IN  /\ Alive
        /\ mode = "mobile"
        /\ Quiet
        /\ h.pc = "write_report"
        /\ Write(r, ReportSink(h.kind), IngestReport(h.timestamp, h.event),
                 MobileRespond(h, "ok"), MobileRespond(h, "closed"))
        /\ UNCHANGED <<shipVars, returned, mode, required_network, now, shutdown, server>>

\* The sink a handler waiting in file_sink::write is writing to.
WriteTarget(h) == IF h.pc = "write_req" THEN ReqSink(h.kind) ELSE ReportSink(h.kind)

\* The response has been sent and the handler's future is dropped.
Reply(r) ==
    /\ Alive
    /\ req[r].pc = "done"
    /\ req' = [req EXCEPT ![r] = Gone]
    /\ UNCHANGED <<shipVars, returned, mode, required_network, now, shutdown, server, sinkVars>>

(* ---------------------- the file sink's own task ----------------------- *)

\* Appended with the record put at the front of the segment.
Appended_Front(seg, rec, t) ==
    IF seg = NoSegment
    THEN [created |-> t, records |-> <<rec>>]
    ELSE [seg EXCEPT !.records = <<rec>> \o @]

\* The open segment with one more record; the segment is created, at
\* instant t, by its first record.
Appended(seg, rec, t) ==
    IF seg = NoSegment
    THEN [created |-> t, records |-> <<rec>>]
    ELSE [seg EXCEPT !.records = Append(@, rec)]

\* The consumer takes the oldest queued record and appends it to the open
\* segment.
SinkAppend(s) ==
    /\ Alive
    /\ Quiet
    /\ s \in Sinks
    /\ sink[s] = "open"
    /\ queue[s] # <<>>
    /\ \E t \in Later :
          /\ open' = [open EXCEPT ![s] = Appended(@, Head(queue[s]), t)]
          /\ now' = IF open[s] = NoSegment THEN t ELSE now
    /\ queue' = [queue EXCEPT ![s] = Tail(@)]
    /\ UNCHANGED <<shipVars, returned, mode, required_network, shutdown, server, req, sealed, sink,
                   enqLog, dropped>>

\* The append of the oldest queued record fails: it is logged, counted and
\* the record is dropped.
SinkAppendFails(s) ==
    /\ Alive
    /\ Quiet
    /\ s \in Sinks
    /\ sink[s] = "open"
    /\ queue[s] # <<>>
    /\ queue' = [queue EXCEPT ![s] = Tail(@)]
    /\ dropped' = [dropped EXCEPT ![s] = @ + 1]
    /\ UNCHANGED <<shipVars, returned, mode, required_network, now, shutdown, server, req, open, sealed,
                   sink, enqLog>>

\* The rotation trigger at instant t: the window has elapsed or the size is
\* over the threshold.
RotationDue(seg, t) ==
    /\ seg # NoSegment
    /\ \/ t - seg.created > RollTime
       \/ Len(seg.records) > MaxSegmentSize

\* The sealed segments with the open one sealed, if there is one.
Seal(segments, seg) == IF seg = NoSegment THEN segments ELSE Append(segments, seg.records)

SinkRotate(s) ==
    /\ Alive
    /\ Quiet
    /\ s \in Sinks
    /\ sink[s] = "open"
    /\ \E t \in Later :
          /\ RotationDue(open[s], t)
          /\ now' = t
    /\ sealed' = [sealed EXCEPT ![s] = Seal(@, open[s])]
    /\ open' = [open EXCEPT ![s] = NoSegment]
    /\ UNCHANGED <<shipVars, returned, mode, required_network, shutdown, server, req, queue, sink,
                   enqLog, dropped>>

RECURSIVE Drained(_, _, _, _)
\* The open segment after the queued records q have been appended to it, those
\* at the positions `failing` (counted from i) excepted.
Drained(seg, q, failing, i) ==
    IF q = <<>> THEN seg
    ELSE Drained(IF i \in failing THEN seg ELSE Appended(seg, Head(q), now),
                 Tail(q), failing, i + 1)

\* The sink sees the shutdown signal: it stops accepting writes, drains the
\* queued records into the open segment, seals it, and its task returns.
SinkShutdown(s) ==
    /\ Alive
    /\ Quiet
    /\ s \in Sinks
    /\ shutdown
    /\ sink[s] = "open"
    /\ \E failing \in SUBSET (1..Len(queue[s])) :
          /\ sealed' = [sealed EXCEPT ![s] = Seal(@, Drained(open[s], queue[s], failing, 1))]
          /\ dropped' = [dropped EXCEPT ![s] = @ + Cardinality(failing)]
    /\ queue' = [queue EXCEPT ![s] = <<>>]
    /\ open' = [open EXCEPT ![s] = NoSegment]
    /\ sink' = [sink EXCEPT ![s] = "closed"]
    /\ returned' = try_join(server, sink', shipper)
    /\ UNCHANGED <<shipVars, mode, required_network, now, shutdown, server, req, enqLog>>

\* The task of sink s returns an error: try_join! returns it at once and the
\* other futures are dropped where they stand.
SinkFails(s) ==
    /\ Alive
    /\ Quiet
    /\ s \in Sinks
    /\ sink[s] = "open"
    /\ sink' = [sink EXCEPT ![s] = "failed"]
    /\ returned' = try_join(server, sink', shipper)
    /\ UNCHANGED <<shipVars, mode, required_network, now, shutdown, server, req>>
    /\ UNCHANGED <<queue, open, sealed, enqLog, dropped>>

(* -------------------------- the upload shipper ------------------------- *)

\* The local files of sealed segments: sealed and not deleted.
OnDisk == SealedSegments \ deleted

\* discover(): the sealed segments no upload has claimed.
Discovered == OnDisk \ claimed

\* Claim without the move to the pending directory: any local file is taken.
Claim_Unguarded(u, id) ==
    /\ Alive
    /\ shipper = "running"
    /\ task[u] = NoUpload
    /\ \A v \in Uploads : v < u => task[v] # NoUpload
    /\ id \in OnDisk
    /\ claimed' = claimed \cup {id}
    /\ task' = [task EXCEPT ![u] = [seg |-> id, state |-> "transmitting", attempts |-> 0]]
    /\ UNCHANGED <<shipper, deleted, remote, exhausted, crashes>>
    /\ UNCHANGED <<returned, mode, required_network, now, shutdown, server, req, sinkVars>>

\* The shipper finds a sealed segment and starts an upload of it: the segment
\* is claimed by its move to the pending directory.  The uploads are alike;
\* the first free one is taken.
Claim(u, id) ==
    /\ Alive
    /\ shipper = "running"
    /\ task[u] = NoUpload
    /\ \A v \in Uploads : v < u => task[v] # NoUpload
    /\ id \in Discovered
    /\ claimed' = claimed \cup {id}
    /\ task' = [task EXCEPT ![u] = [seg |-> id, state |-> "transmitting", attempts |-> 0]]
    /\ UNCHANGED <<shipper, deleted, remote, exhausted, crashes>>
    /\ UNCHANGED <<returned, mode, required_network, now, shutdown, server, req, sinkVars>>

\* PutFails with the segment discarded when the retries run out.
PutFails_Discards(u) ==
    /\ Alive
    /\ task[u].state = "transmitting"
    /\ IF task[u].attempts + 1 < MaxAttempts
       THEN /\ task' = [task EXCEPT ![u].attempts = @ + 1]
            /\ UNCHANGED <<claimed, exhausted, deleted>>
       ELSE /\ task' = [task EXCEPT ![u] = NoUpload]
            /\ claimed' = claimed \ {task[u].seg}
            /\ exhausted' = exhausted \cup {task[u].seg}
            /\ deleted' = deleted \cup {task[u].seg}
    /\ UNCHANGED <<shipper, remote, crashes>>
    /\ UNCHANGED <<returned, mode, required_network, now, shutdown, server, req, sinkVars>>

\* An attempt of upload u fails; the upload retries until its bound, then
\* gives the segment back for a later discovery pass.
PutFails(u) ==
    /\ Alive
    /\ task[u].state = "transmitting"
    /\ IF task[u].attempts + 1 < MaxAttempts
       THEN /\ task' = [task EXCEPT ![u].attempts = @ + 1]
            /\ UNCHANGED <<claimed, exhausted>>
       ELSE /\ task' = [task EXCEPT ![u] = NoUpload]
            /\ claimed' = claimed \ {task[u].seg}
            /\ exhausted' = exhausted \cup {task[u].seg}
    /\ UNCHANGED <<shipper, deleted, remote, crashes>>
    /\ UNCHANGED <<returned, mode, required_network, now, shutdown, server, req, sinkVars>>

\* An attempt of upload u is acknowledged by the remote store.
PutAcked(u) ==
    /\ Alive
    /\ task[u].state = "transmitting"
    /\ remote' = [remote EXCEPT ![task[u].seg] = @ + 1]
    /\ task' = [task EXCEPT ![u].state = "confirmed"]
    /\ UNCHANGED <<shipper, claimed, deleted, exhausted, crashes>>
    /\ UNCHANGED <<returned, mode, required_network, now, shutdown, server, req, sinkVars>>

\* Delete without waiting for the acknowledgement.
Delete_Unconfirmed(u) ==
    /\ Alive
    /\ task[u].state \in {"transmitting", "confirmed"}
    /\ deleted' = deleted \cup {task[u].seg}
    /\ claimed' = claimed \ {task[u].seg}
    /\ task' = [task EXCEPT ![u] = NoUpload]
    /\ UNCHANGED <<shipper, remote, exhausted, crashes>>
    /\ UNCHANGED <<returned, mode, required_network, now, shutdown, server, req, sinkVars>>

\* A confirmed upload deletes the local file of its segment.
Delete(u) ==
    /\ Alive
    /\ task[u].state = "confirmed"
    /\ deleted' = deleted \cup {task[u].seg}
    /\ claimed' = claimed \ {task[u].seg}
    /\ task' = [task EXCEPT ![u] = NoUpload]
    /\ UNCHANGED <<shipper, remote, exhausted, crashes>>
    /\ UNCHANGED <<returned, mode, required_network, now, shutdown, server, req, sinkVars>>

\* The shipper sees the shutdown signal: it starts no new upload.
ShipperObserves ==
    /\ Alive
    /\ shutdown
    /\ shipper = "running"
    /\ shipper' = "stopping"
    /\ UNCHANGED <<task, claimed, deleted, remote, exhausted, crashes>>
    /\ UNCHANGED <<returned, mode, required_network, now, shutdown, server, req, sinkVars>>

\* The uploads in flight have finished and the shipper's task returns.
ShipperExits ==
    /\ Alive
    /\ shipper = "stopping"
    /\ \A u \in Uploads : task[u] = NoUpload
    /\ shipper' = "exited"
    /\ returned' = try_join(server, sink, shipper')
    /\ UNCHANGED <<task, claimed, deleted, remote, exhausted, crashes>>
    /\ UNCHANGED <<mode, required_network, now, shutdown, server, req, sinkVars>>

\* The shipper's task returns an error.
ShipperFails ==
    /\ Alive
    /\ Quiet
    /\ shipper \in {"running", "stopping"}
    /\ shipper' = "failed"
    /\ returned' = try_join(server, sink, shipper')
    /\ UNCHANGED <<task, claimed, deleted, remote, exhausted, crashes>>
    /\ UNCHANGED <<mode, required_network, now, shutdown, server, req, sinkVars>>

\* The process is killed: what it held in memory is gone, the disk stays.
Crash ==
    /\ Alive
    /\ shipper \in {"running", "stopping"}
    /\ crashes < MaxCrashes
    /\ crashes' = crashes + 1
    /\ shipper' = "down"
    /\ task' = [u \in Uploads |-> NoUpload]
    /\ UNCHANGED <<claimed, deleted, remote, exhausted>>
    /\ UNCHANGED <<returned, mode, required_network, now, shutdown, server, req, sinkVars>>

\* Restart with the pending directory left as the dead process had it.
Restart_KeepsClaims ==
    /\ shipper = "down"
    /\ shipper' = "running"
    /\ shutdown' = FALSE
    /\ UNCHANGED <<task, claimed, deleted, remote, exhausted, crashes>>
    /\ UNCHANGED <<returned, mode, required_network, now, server, req, sinkVars>>

\* The process is started again: the shipper rebuilds its pending set from
\* the disk, the segments a dead upload had claimed included.
Restart ==
    /\ shipper = "down"
    /\ shipper' = "running"
    /\ claimed' = {}
    /\ shutdown' = FALSE
    /\ UNCHANGED <<task, deleted, remote, exhausted, crashes>>
    /\ UNCHANGED <<returned, mode, required_network, now, server, req, sinkVars>>

(* ------------------------ the server and the signal -------------------- *)

\* The shutdown trigger is pulled.
Trigger ==
    /\ Alive
    /\ Quiet
    /\ ~shutdown
    /\ shutdown' = TRUE
    /\ UNCHANGED <<shipVars, returned, mode, required_network, now, server, req, sinkVars>>

\* serve_with_shutdown returns when, after the signal, the handlers in flight
\* have answered.
ServerStop ==
    /\ Alive
    /\ shutdown
    /\ server = "serving"
    /\ \A r \in Handlers : req[r].pc \in {"idle", "gone"}
    /\ server' = "stopped"
    /\ returned' = try_join(server', sink, shipper)
    /\ UNCHANGED <<shipVars, mode, required_network, now, shutdown, req, sinkVars>>

\* The transport server returns an error.
ServerFails ==
    /\ Alive
    /\ Quiet
    /\ server = "serving"
    /\ server' = "failed"
    /\ returned' = try_join(server', sink, shipper)
    /\ UNCHANGED <<shipVars, mode, required_network, now, shutdown, req, sinkVars>>

(* --------------------------- specification ----------------------------- *)

Init ==
    /\ mode \in Modes
    /\ required_network = "MainNet"
    /\ now = 0
    /\ shutdown = FALSE
    /\ server = "serving"
    /\ req = [r \in Handlers |-> Idle]
    /\ queue = [s \in AllSinks |-> <<>>]
    /\ open = [s \in AllSinks |-> NoSegment]
    /\ sealed = [s \in AllSinks |-> <<>>]
    /\ sink = [s \in AllSinks |-> "open"]
    /\ enqLog = [s \in AllSinks |-> <<>>]
    /\ dropped = [s \in AllSinks |-> 0]
    /\ shipper = "running"
    /\ task = [u \in Uploads |-> NoUpload]
    /\ claimed = {}
    /\ deleted = {}
    /\ remote = [id \in SegmentIds |-> 0]
    /\ exhausted = {}
    /\ crashes = 0
    /\ returned = Pending

Next ==
    \/ \E r \in Handlers :
          \/ IotSubmit(r) \/ IotWrite(r)
          \/ LegacySubmit(r) \/ LegacyWrite(r)
          \/ MobileSubmit(r) \/ MobileWriteReq(r) \/ MobileWriteReport(r)
          \/ Reply(r)
    \/ \E s \in AllSinks :
          \/ SinkAppend(s) \/ SinkAppendFails(s) \/ SinkRotate(s)
          \/ SinkShutdown(s)
    \/ Trigger
    \/ ServerStop

Spec == Init /\ [][Next]_vars

\* A validly signed report of the configured network.
ValidEvent ==
    [pub_key |-> MainNetKey, payload |-> <<1>>,
     signature |-> Sign(MainNetKey, SignedBytes(MainNetKey, <<1>>))]

\* The sealed segments a sink's directory may hold when the process starts.
OnDiskInputs ==
    {[i \in 1..n |-> <<IngestReport(0, ValidEvent)>>] : n \in 0..MaxOnDisk}

RECURSIVE Total(_, _)
\* The sum of f over the set S.
Total(f, S) ==
    IF S = {} THEN 0
    ELSE LET x == CHOOSE y \in S : TRUE IN f[x] + Total(f, S \ {x})

\* The newest LoRa server starts over a disk that holds sealed segments of
\* an earlier run.
ShipInit ==
    /\ mode = "iot"
    /\ required_network = "MainNet"
    /\ now = 0
    /\ shutdown = FALSE
    /\ server = "serving"
    /\ req = [r \in Handlers |-> Idle]
    /\ queue = [s \in AllSinks |-> <<>>]
    /\ open = [s \in AllSinks |-> NoSegment]
    /\ sealed \in [AllSinks -> OnDiskInputs]
    /\ \A s \in AllSinks \ LoraSinks : sealed[s] = <<>>
    /\ Total([s \in AllSinks |-> Len(sealed[s])], AllSinks) <= MaxOnDisk
    /\ sink = [s \in AllSinks |-> "open"]
    /\ enqLog = [s \in AllSinks |-> <<>>]
    /\ dropped = [s \in AllSinks |-> 0]
    /\ shipper = "running"
    /\ task = [u \in Uploads |-> NoUpload]
    /\ claimed = {}
    /\ deleted = {}
    /\ remote = [id \in SegmentIds |-> 0]
    /\ exhausted = {}
    /\ crashes = 0
    /\ returned = Pending

(* --------------------------- run: the setup --------------------------- *)

\* The sinks of the running server in the order run creates them.
SinkOrder ==
    IF mode = "mobile"
    THEN <<"heartbeat_req", "heartbeat_report", "speedtest_req", "speedtest_report">>
    ELSE <<"beacon_report", "witness_report">>

\* The steps of the setup that can fail, each ended by `?`.
SetupSteps == {"listen_addr", "FileUpload", "FileSinkBuilder::create", "GrpcServer::new", "API_TOKEN"}

\* settings.listen_addr()?, or the socket address read from the environment.
ListenAddr ==
    /\ Alive
    /\ server = "unresolved"
    /\ \E ok \in BOOLEAN :
          IF ok THEN server' = "resolved" /\ returned' = returned
                ELSE server' = server /\ returned' = Err("listen_addr")
    /\ UNCHANGED <<shipVars, mode, required_network, now, shutdown, req, sinkVars>>

\* FileUpload::from_settings(..).await?: the uploader is built, not yet run.
BuildUploader ==
    /\ Alive
    /\ server = "resolved"
    /\ shipper = "unbuilt"
    /\ \E ok \in BOOLEAN :
          IF ok THEN shipper' = "built" /\ returned' = returned
                ELSE shipper' = shipper /\ returned' = Err("FileUpload")
    /\ UNCHANGED <<task, claimed, deleted, remote, exhausted, crashes>>
    /\ UNCHANGED <<mode, required_network, now, shutdown, server, req, sinkVars>>

\* The place of sink s in SinkOrder, 0 when the server has no such sink.
PlaceOf(s) ==
    IF \E i \in 1..Len(SinkOrder) : SinkOrder[i] = s
    THEN CHOOSE i \in 1..Len(SinkOrder) : SinkOrder[i] = s
    ELSE 0

\* The sinks are created one after the other: s is the next one.
NextToCreate(s) ==
    /\ PlaceOf(s) > 0
    /\ sink[s] = "uncreated"
    /\ \A i \in 1..(PlaceOf(s) - 1) : sink[SinkOrder[i]] = "created"

\* CreateSink with the sink's task spawned as soon as the sink is created.
CreateSink_Spawned(s) ==
    /\ Alive
    /\ shipper = "built"
    /\ NextToCreate(s)
    /\ \E ok \in BOOLEAN :
          IF ok THEN sink' = [sink EXCEPT ![s] = "open"] /\ returned' = returned
                ELSE sink' = sink /\ returned' = Err("FileSinkBuilder::create")
    /\ UNCHANGED <<shipVars, mode, required_network, now, shutdown, server, req>>
    /\ UNCHANGED <<queue, open, sealed, enqLog, dropped>>

\* FileSinkBuilder::new(..).deposits(..).create().await?: the sink is created,
\* its task not yet run.
CreateSink(s) ==
    /\ Alive
    /\ shipper = "built"
    /\ NextToCreate(s)
    /\ \E ok \in BOOLEAN :
          IF ok THEN sink' = [sink EXCEPT ![s] = "created"] /\ returned' = returned
                ELSE sink' = sink /\ returned' = Err("FileSinkBuilder::create")
    /\ UNCHANGED <<shipVars, mode, required_network, now, shutdown, server, req>>
    /\ UNCHANGED <<queue, open, sealed, enqLog, dropped>>

\* The step that builds the service: the newest LoRa server's cannot fail, the
\* legacy one's GrpcServer::new(..)? can, the mobile one needs API_TOKEN.
ServiceError ==
    IF mode = "mobile" THEN "API_TOKEN" ELSE "GrpcServer::new"

\* The server future is built over the service: nothing is bound or served
\* before the future is polled.
BuildServer ==
    /\ Alive
    /\ server = "resolved"
    /\ \A s \in Sinks : sink[s] = "created"
    /\ \E ok \in BOOLEAN :
          /\ mode = "iot" => ok
          /\ IF ok THEN server' = "built" /\ returned' = returned
                   ELSE server' = server /\ returned' = Err(ServiceError)
    /\ UNCHANGED <<shipVars, mode, required_network, now, shutdown, req, sinkVars>>

\* tokio::try_join! polls its futures for the first time: the server binds
\* and serves, the sinks and the shipper run.
Start ==
    /\ Alive
    /\ server = "built"
    /\ server' = "serving"
    /\ sink' = [s \in AllSinks |-> IF s \in Sinks THEN "open" ELSE sink[s]]
    /\ shipper' = "running"
    /\ UNCHANGED <<task, claimed, deleted, remote, exhausted, crashes>>
    /\ UNCHANGED <<returned, mode, required_network, now, shutdown, req>>
    /\ UNCHANGED <<queue, open, sealed, enqLog, dropped>>

\* run is called: nothing is built yet.
SetupInit ==
    /\ mode \in Modes
    /\ required_network = "MainNet"
    /\ now = 0
    /\ shutdown = FALSE
    /\ server = "unresolved"
    /\ req = [r \in Handlers |-> Idle]
    /\ queue = [s \in AllSinks |-> <<>>]
    /\ open = [s \in AllSinks |-> NoSegment]
    /\ sealed = [s \in AllSinks |-> <<>>]
    /\ sink = [s \in AllSinks |-> "uncreated"]
    /\ enqLog = [s \in AllSinks |-> <<>>]
    /\ dropped = [s \in AllSinks |-> 0]
    /\ shipper = "unbuilt"
    /\ task = [u \in Uploads |-> NoUpload]
    /\ claimed = {}
    /\ deleted = {}
    /\ remote = [id \in SegmentIds |-> 0]
    /\ exhausted = {}
    /\ crashes = 0
    /\ returned = Pending

\* run from its call: the setup, then the server and its sinks.
SetupNext ==
    \/ ListenAddr
    \/ BuildUploader
    \/ \E s \in AllSinks : CreateSink(s)
    \/ BuildServer
    \/ Start
    \/ \E r \in Handlers :
          \/ IotSubmit(r) \/ IotWrite(r)
          \/ LegacySubmit(r) \/ LegacyWrite(r)
          \/ MobileSubmit(r) \/ MobileWriteReq(r) \/ MobileWriteReport(r)
          \/ Reply(r)
    \/ \E s \in AllSinks :
          \/ SinkAppend(s) \/ SinkAppendFails(s) \/ SinkRotate(s)
          \/ SinkShutdown(s)
    \/ Trigger
    \/ ServerStop

SetupSpec == SetupInit /\ [][SetupNext]_vars

\* run as a whole, for the newest LoRa server: the handlers, the sinks and the
\* shipper joined by try_join!, any of which may fail.  The remote store
\* acknowledges every upload here; failed uploads are studied in ShipSpec.
RunInit == Init /\ mode = "iot"

RunNext ==
    \/ \E r \in Handlers : IotSubmit(r) \/ IotWrite(r) \/ Reply(r)
    \/ \E s \in LoraSinks :
          \/ SinkAppend(s) \/ SinkAppendFails(s) \/ SinkRotate(s)
          \/ SinkShutdown(s) \/ SinkFails(s)
    \/ \E u \in Uploads :
          \/ \E id \in SegmentIds : Claim(u, id)
          \/ PutAcked(u) \/ Delete(u)
    \/ ShipperObserves
    \/ ShipperExits
    \/ ShipperFails
    \/ Trigger
    \/ ServerStop
    \/ ServerFails

RunSpec == RunInit /\ [][RunNext]_vars

\* The runtime polls a joined future that can make progress.
RunFairSpec == RunSpec /\ WF_vars(RunNext)

\* The mobile server with its interceptor: requests come with any
\* authorization header.
AuthInit == Init /\ mode = "mobile"

AuthNext ==
    \/ \E r \in Handlers :
          \/ MobileCall(r) \/ MobileWriteReq(r) \/ MobileWriteReport(r)
          \/ Reply(r)
    \/ \E s \in MobileReqSinks \cup MobileReportSinks :
          \/ SinkAppend(s) \/ SinkAppendFails(s) \/ SinkRotate(s)
          \/ SinkShutdown(s)
    \/ Trigger
    \/ ServerStop

AuthSpec == AuthInit /\ [][AuthNext]_vars

\* generate_id on its own: every call frame starts with a report read back
\* from a segment, and the call fills in the id.
DataInputs == {<<>>, <<1>>, <<43, 49>>}

DateTimeInputs == {DateTime(2024, 0), DateTime(2024, 1), DateTime(2024, 1000), DateTime(12024, 0)}

\* self, as generate_id borrows it.
Report(data, received_ts, pub_key) ==
    [Idle EXCEPT !.pc = "call",
                 !.event = [NoEvent EXCEPT !.payload = data, !.pub_key = pub_key],
                 !.timestamp = received_ts]

ReportInputs ==
    {Report(d, ts, k) : d \in DataInputs, ts \in DateTimeInputs, k \in {MainNetKey, TestNetKey}}

\* ingest_generate_id with the key appended before the timestamp.
ingest_generate_id_KeyFirst(self) ==
    LET id == self.event.payload
        public_key == self.event.pub_key
        keyed == id \o public_key
    IN  Sha256(keyed \o DateTimeToString(self.timestamp))

\* LoraWitnessIngestReport::generate_id(&self): the report's data is cloned,
\* the text of self.received_timestamp is appended, then the key bytes, and
\* the whole is digested.
ingest_generate_id(self) ==
    LET id == self.event.payload
        public_key == self.event.pub_key
        stamped == id \o DateTimeToString(self.timestamp)
    IN  Sha256(stamped \o public_key)

\* GenerateId with the id built in place of the data, which is not cloned.
GenerateId_InPlace(r) ==
    LET h == req[r]
    IN  /\ h.pc = "call"
        /\ req' = [req EXCEPT ![r].pc = "returned",
                              ![r].event_id = ingest_generate_id(h),
                              ![r].event.payload =
                                  @ \o DateTimeToString(h.timestamp) \o h.event.pub_key]
        /\ UNCHANGED <<shipVars, returned, mode, required_network, now, shutdown, server, sinkVars>>

\* self.generate_id(): the id is returned; self is only read.
GenerateId(r) ==
    LET h == req[r]
    IN  /\ h.pc = "call"
        /\ req' = [req EXCEPT ![r].pc = "returned",
                              ![r].event_id = ingest_generate_id(h)]
        /\ UNCHANGED <<shipVars, returned, mode, required_network, now, shutdown, server, sinkVars>>

GenInit ==
    /\ mode = "iot"
    /\ required_network = "MainNet"
    /\ now = 0
    /\ shutdown = FALSE
    /\ server = "serving"
    /\ req \in [Handlers -> ReportInputs]
    /\ queue = [s \in AllSinks |-> <<>>]
    /\ open = [s \in AllSinks |-> NoSegment]
    /\ sealed = [s \in AllSinks |-> <<>>]
    /\ sink = [s \in AllSinks |-> "open"]
    /\ enqLog = [s \in AllSinks |-> <<>>]
    /\ dropped = [s \in AllSinks |-> 0]
    /\ shipper = "running"
    /\ task = [u \in Uploads |-> NoUpload]
    /\ claimed = {}
    /\ deleted = {}
    /\ remote = [id \in SegmentIds |-> 0]
    /\ exhausted = {}
    /\ crashes = 0
    /\ returned = Pending

GenNext == \E r \in Handlers : GenerateId(r)

GenSpec == GenInit /\ [][GenNext]_vars

\* The shipper at work and the signal; no request arrives.
ShipNext ==
    \/ \E u \in Uploads :
          \/ \E id \in SegmentIds : Claim(u, id)
          \/ PutFails(u) \/ PutAcked(u) \/ Delete(u)
    \/ ShipperObserves
    \/ ShipperExits
    \/ Trigger

ShipSpec == ShipInit /\ [][ShipNext]_vars

\* The same with the process killed and started again.
CrashNext ==
    \/ \E u \in Uploads :
          \/ \E id \in SegmentIds : Claim(u, id)
          \/ PutFails(u) \/ PutAcked(u) \/ Delete(u)
    \/ ShipperObserves
    \/ ShipperExits
    \/ Trigger
    \/ Crash
    \/ Restart

\* The kill is studied over a disk that holds one or two sealed segments.
CrashInit == ShipInit /\ Cardinality(SealedSegments) \in {1, 2}

CrashSpec == CrashInit /\ [][CrashNext]_vars

\* The shipper's loop and its uploads are scheduled fairly, and the remote
\* store acknowledges an upload that keeps trying.
ShipFairness ==
    \A u \in Uploads :
        /\ WF_vars(\E id \in SegmentIds : Claim(u, id))
        /\ SF_vars(PutAcked(u))
        /\ WF_vars(Delete(u))

ShipFairSpec == ShipSpec /\ ShipFairness

\* The process, once killed, is started again.
CrashFairSpec == CrashSpec /\ ShipFairness /\ WF_vars(Restart)

\* The runtime keeps running its tasks: while a handler can go on, a response
\* can leave or a sink task has work, one of them does its step.
Fairness == WF_vars(Next)

FairSpec == Spec /\ Fairness

(* ------------------------------ properties ----------------------------- *)

\* The handlers that hold a request: arrived and not yet dropped.
InFlight == {r \in Handlers : req[r].pc \notin {"idle", "gone"}}

\* The three checks of the gate, each stated on the request alone.
DecodeOk(event) == PublicKeyTryFrom(event.pub_key).ok

NetworkOk(event) == PublicKeyTryFrom(event.pub_key).network = required_network

SignatureOk(event) == MsgVerify(event, PublicKeyTryFrom(event.pub_key))

\* The outcome of decode, network, signature taken in that order: "ok", or the
\* error of the first check that fails.
FirstFailure(event) ==
    IF ~DecodeOk(event) THEN "invalid public key"
    ELSE IF ~NetworkOk(event) THEN "invalid network"
    ELSE IF ~SignatureOk(event) THEN "invalid signature"
    ELSE "ok"

\* The same without the network check.
FirstFailureNoNetwork(event) ==
    IF ~DecodeOk(event) THEN "invalid public key"
    ELSE IF ~SignatureOk(event) THEN "invalid signature"
    ELSE "ok"

\* What the gate made of the request of handler h: "ok" when the handler went
\* on past the gate, else the error it returned.
GateOutcome(h) == IF h.verified THEN "ok" ELSE h.resp.status

\* What the gate of the running server is to make of an event.
ServerGate(event) ==
    IF mode = "mobile" THEN FirstFailureNoNetwork(event) ELSE FirstFailure(event)

RECURSIVE Concat(_)
Concat(seqs) == IF seqs = <<>> THEN <<>> ELSE Head(seqs) \o Concat(Tail(seqs))

\* The records of sink s in its segments, in append order, and with the queued
\* ones after them.
SegmentRecords(s) == Concat(sealed[s]) \o open[s].records

Pipeline(s) == SegmentRecords(s) \o queue[s]

\* The event a record of sink s carries.
EventOf(s, rec) == IF s \in MobileReqSinks THEN rec ELSE rec.report

\* C1 as stated: in every server, a request passes the gate iff its key
\* decodes, the key's network is the configured one and the signature
\* validates, and a rejected request is answered with the error of the first
\* of these checks, in this order, that fails.
C1_GateAllThree ==
    \A r \in InFlight : GateOutcome(req[r]) = FirstFailure(req[r].event)

\* C1, amended: a beacon or witness request passes the gate iff its key
\* decodes, the key's network is the configured one and the signature
\* validates; a speedtest or heartbeat request passes iff its key decodes and
\* the signature validates, its network is not looked at.  A rejected request
\* is answered with the error of the first failing check, in the order decode,
\* network, signature.
C1_GatePerServer ==
    \A r \in InFlight :
        /\ GateOutcome(req[r]) = ServerGate(req[r].event)
        /\ req[r].resp.status = "ok" => req[r].verified

\* A LoRa request whose key is on the wrong network and whose signature is
\* invalid too has been answered: with the network error.
C1_Witness ==
    \E r \in InFlight :
        /\ mode # "mobile"
        /\ req[r].pc = "done"
        /\ DecodeOk(req[r].event) /\ ~NetworkOk(req[r].event) /\ ~SignatureOk(req[r].event)
        /\ req[r].resp.status = "invalid network"

\* C2: a request that fails a check of its server's gate enqueues nothing: its
\* handler returns the error without a write, and no record of any sink, queued
\* or in a segment, carries an event that fails the gate.
C2_RejectedWritesNothing ==
    /\ \A r \in InFlight :
          ServerGate(req[r].event) # "ok" =>
              /\ req[r].pc = "done"
              /\ req[r].resp.status # "ok"
              /\ req[r].sent = <<>>
    /\ \A s \in AllSinks :
          \A i \in 1..Len(Pipeline(s)) : ServerGate(EventOf(s, Pipeline(s)[i])) = "ok"

\* A request has been rejected while a sink holds the record of another one.
C2_Witness ==
    /\ \E r \in InFlight : req[r].pc = "done" /\ ServerGate(req[r].event) # "ok"
    /\ \E s \in AllSinks : Pipeline(s) # <<>>

\* C3 as stated: a request of any kind whose key decodes and whose signature
\* validates but whose key is on another network than the configured one is
\* rejected with the network error, and no sink gets a record of it.
C3_WrongNetworkAllKinds ==
    /\ \A r \in InFlight :
          (DecodeOk(req[r].event) /\ SignatureOk(req[r].event) /\ ~NetworkOk(req[r].event)) =>
              /\ req[r].pc = "done"
              /\ req[r].resp.status = "invalid network"
              /\ req[r].sent = <<>>
    /\ \A s \in AllSinks :
          \A i \in 1..Len(Pipeline(s)) : NetworkOk(EventOf(s, Pipeline(s)[i]))

\* C3, amended: a beacon or witness request whose key decodes and whose
\* signature validates but whose key is on another network than the
\* configured one is rejected with the network error, and no sink gets a
\* record of it.  A speedtest or heartbeat request of that sort passes the
\* gate.
C3_WrongNetworkLora ==
    /\ \A r \in InFlight :
          (DecodeOk(req[r].event) /\ SignatureOk(req[r].event) /\ ~NetworkOk(req[r].event)) =>
              IF mode = "mobile"
              THEN req[r].verified
              ELSE /\ req[r].pc = "done"
                   /\ req[r].resp.status = "invalid network"
                   /\ req[r].sent = <<>>
    /\ \A s \in LoraSinks :
          \A i \in 1..Len(Pipeline(s)) : NetworkOk(EventOf(s, Pipeline(s)[i]))

\* A validly signed LoRa request from the other network has been rejected
\* while a sink holds the record of another request.
C3_Witness ==
    /\ mode # "mobile"
    /\ \E r \in InFlight :
          /\ req[r].pc = "done"
          /\ DecodeOk(req[r].event) /\ SignatureOk(req[r].event) /\ ~NetworkOk(req[r].event)
          /\ req[r].resp.status = "invalid network"
    /\ \E s \in LoraSinks : Pipeline(s) # <<>>

\* The identifier a server answers an accepted request with; it is made of the
\* request and the handler's clock reading, never of a write's outcome.
ResponseId(h) == IF mode = "iot_legacy" THEN TextId(h.timestamp) ELSE EventIdFrom(h.event)

\* C4: a request that passes the gate is answered with success and an
\* identifier whatever its writes came to, and the identifier is the same
\* whether they succeeded or not.
C4_AcceptedAlwaysOk ==
    \A r \in InFlight :
        (req[r].pc = "done" /\ ServerGate(req[r].event) = "ok") =>
            /\ req[r].resp.status = "ok"
            /\ req[r].resp.id # NoId
            /\ req[r].resp.id = ResponseId(req[r])

\* An accepted request whose write found the sink closed has been answered
\* with success.
C4_Witness ==
    \E r \in InFlight :
        /\ req[r].pc = "done"
        /\ \E i \in 1..Len(req[r].sent) : req[r].sent[i] = "closed"
        /\ req[r].resp.status = "ok"

\* C5: the identifier an accepted request is answered with is the digest of
\* the payload bytes, the text of the received_timestamp stored in the
\* request's IngestReport and the key bytes.
C5_IdIsTimestampedDigest ==
    \A r \in InFlight :
        (req[r].pc = "done" /\ req[r].resp.status = "ok") =>
            req[r].resp.id =
                generate_id(req[r].event.payload, FromMillis(req[r].timestamp),
                            req[r].event.pub_key)

\* C6: a handler holds a clock reading only once the gate has accepted its
\* request.
C6_ClockReadAfterGate ==
    \A r \in InFlight : req[r].timestamp # NoTime => req[r].verified

\* C7: the records in the segments of a sink carry non-decreasing
\* received_timestamps in append order.
C7_MonotonicPerSink ==
    \A s \in ReportSinks :
        \A i, j \in 1..Len(SegmentRecords(s)) :
            i < j => SegmentRecords(s)[i].received_timestamp
                         <= SegmentRecords(s)[j].received_timestamp

\* The server has shut down cleanly: it has stopped and the task of every
\* sink it joined has returned.
CleanShutdown == server = "stopped" /\ \A s \in Sinks : sink[s] = "closed"

\* C8 as stated: after a clean shutdown the sealed segments of every sink hold
\* as many records as enqueue calls on the sink succeeded.
C8_SealedEqualsEnqueued ==
    CleanShutdown => \A s \in AllSinks : Len(Concat(sealed[s])) = Len(enqLog[s])

\* C8, amended: a sink that has shut down has nothing queued and no open
\* segment, and after a clean shutdown the sealed segments of every sink hold
\* as many records as enqueue calls on the sink succeeded, less the records
\* whose append failed.
C8_SealedEqualsAppended ==
    /\ \A s \in AllSinks : sink[s] = "closed" => queue[s] = <<>> /\ open[s] = NoSegment
    /\ CleanShutdown =>
          \A s \in AllSinks :
              /\ queue[s] = <<>>
              /\ open[s] = NoSegment
              /\ Len(Concat(sealed[s])) = Len(enqLog[s]) - dropped[s]

\* After a clean shutdown a sink holds every record enqueued on it, sealed.
C8_Witness ==
    /\ CleanShutdown
    /\ \E s \in Sinks :
          /\ Len(enqLog[s]) >= 1
          /\ dropped[s] = 0
          /\ Len(Concat(sealed[s])) = Len(enqLog[s])

\* The sink the i-th write of handler h went to.
SinkOfWrite(h, i) ==
    IF mode = "mobile" /\ i = 1 THEN ReqSink(h.kind) ELSE ReportSink(h.kind)

\* Handler r is in file_sink::write.
Writing(r) == req[r].pc \in {"write", "write_req", "write_report"}

\* Handler r is suspended in a write on a full channel.
Suspended(r) == Writing(r) /\ SendFull(WriteTarget(req[r]))

\* The safety part of C9.
BoundedChannel ==
    /\ \A s \in AllSinks : Len(queue[s]) <= Capacity
    /\ \A r \in InFlight :
          \A i \in 1..Len(req[r].sent) :
              /\ req[r].sent[i] \in {"ok", "closed"}
              /\ req[r].sent[i] = "closed" => sink[SinkOfWrite(req[r], i)] = "closed"

\* C9: a sink never has more records queued than its channel's capacity; a
\* write ends with the record queued or with SINK_CLOSED, the latter only on a
\* sink that has shut down; and a write suspended on a full channel ends.
C9_Backpressure ==
    /\ []BoundedChannel
    /\ \A r \in Handlers : Suspended(r) ~> ~Writing(r)

\* A handler is suspended in a write on a full channel of an open sink.
C9_Witness == \E r \in InFlight : Suspended(r) /\ ~shutdown

RECURSIVE IsSubseq(_, _)
\* a is b with some elements left out, the order kept.
IsSubseq(a, b) ==
    IF a = <<>> THEN TRUE
    ELSE IF b = <<>> THEN FALSE
    ELSE IF Head(a) = Head(b) THEN IsSubseq(Tail(a), Tail(b))
    ELSE IsSubseq(a, Tail(b))

Submitted == {r \in Handlers : req[r].pc # "idle"}

\* An identifier of fixed length: a digest.  The decimal text of a number has
\* as many characters as the number has digits.
FixedLength(id) == id.alg = "sha256"

\* Scenario A has run its course: one request was submitted and answered, its
\* report was validly signed for the configured network and was enqueued, no
\* append failed, and every sink has taken its queue to disk and sealed it.
ScenarioA ==
    /\ Cardinality(Submitted) = 1
    /\ \A r \in Submitted : req[r].pc = "gone"
    /\ \E s \in AllSinks : enqLog[s] # <<>>
    /\ \A s \in AllSinks :
          /\ dropped[s] = 0
          /\ queue[s] = <<>>
          /\ open[s] = NoSegment
          /\ \A i \in 1..Len(enqLog[s]) : FirstFailure(EventOf(s, enqLog[s][i])) = "ok"

\* C11: the identifier a valid submission is answered with has a fixed
\* length, and when Scenario A has run its course exactly one sealed segment
\* exists, with exactly one record, the record of the submission.
C11_ScenarioA ==
    /\ \A r \in InFlight :
          (req[r].pc = "done" /\ req[r].resp.status = "ok") => FixedLength(req[r].resp.id)
    /\ ScenarioA =>
          /\ Cardinality(SealedSegments) = 1
          /\ \A id \in SealedSegments :
                /\ Len(sealed[id[1]][id[2]]) = 1
                /\ sealed[id[1]][id[2]] = enqLog[id[1]]

\* The remote store has acknowledged segment id.
Confirmed(id) == remote[id] >= 1

\* C12: the local file of a sealed segment is deleted only once the remote
\* store has acknowledged the segment: every deleted segment is confirmed, and
\* the segment of an upload still transmitting is on disk.
C12_DeleteAfterAck ==
    /\ \A id \in deleted : Confirmed(id)
    /\ \A u \in Uploads : task[u].state = "transmitting" => task[u].seg \in OnDisk

\* A segment whose upload failed through a whole bounded retry has later been
\* confirmed and deleted.
C12_Witness == \E id \in deleted : id \in exhausted /\ Confirmed(id)

\* No sealed segment is dropped: a segment that is not confirmed is on disk.
NeverDropped == \A id \in SealedSegments : ~Confirmed(id) => id \in OnDisk

\* C13: a segment whose bounded retry ran out is on disk and can be claimed
\* again, no unconfirmed segment is ever off the disk, and, the remote store
\* acknowledging in the end, every sealed segment is confirmed unless the
\* shipper is told to stop.
C13_RetriedUntilConfirmed ==
    /\ []NeverDropped
    /\ [](\A id \in exhausted :
              (~Confirmed(id) /\ \A u \in Uploads : task[u].seg # id) => id \in Discovered)
    /\ <>(shutdown \/ \A id \in SealedSegments : Confirmed(id))

\* A segment whose bounded retry ran out has been confirmed by a later pass.
C13_Witness == \E id \in exhausted : Confirmed(id) /\ ~shutdown

\* C14: while the process is down every unconfirmed sealed segment is on
\* disk, and after the restart every segment that was on disk is confirmed
\* unless the shipper is told to stop.
C14_CrashLosesNothing ==
    /\ [](shipper = "down" => NeverDropped)
    /\ (shipper = "down") ~> (shutdown \/ \A id \in SealedSegments : Confirmed(id))

\* After a kill a segment has been uploaded a second time.
C14_Witness == crashes >= 1 /\ \E id \in SealedSegments : remote[id] >= 2

\* C15: no two uploads hold the same segment, and the segment of every upload
\* is claimed on disk.
C15_OneUploadPerSegment ==
    /\ \A u, v \in Uploads :
          (u # v /\ task[u] # NoUpload /\ task[v] # NoUpload) => task[u].seg # task[v].seg
    /\ \A u \in Uploads : task[u] # NoUpload => task[u].seg \in claimed

\* Two uploads transmit two segments at the same time.
C15_Witness ==
    \E u, v \in Uploads :
        /\ task[u].state = "transmitting"
        /\ task[v].state = "transmitting"
        /\ task[u].seg # task[v].seg

\* Sink s has drained and sealed: nothing queued, nothing open, its task
\* returned.
DrainedAndSealed(s) == sink[s] = "closed" /\ queue[s] = <<>> /\ open[s] = NoSegment

\* The shipper has finished what it had in flight and returned.
ShipperDone == shipper = "exited" /\ \A u \in Uploads : task[u] = NoUpload

\* The joined tasks that have returned an error.
FailedTasks == Failed(server, sink, shipper)

\* C16: when a task of the group returns an error the shutdown signal is
\* triggered, and every other task then drains to completion: the server
\* stops, each other sink drains and seals, the shipper finishes its uploads.
C16_ErrorTriggersDrain ==
    /\ [](FailedTasks # {} => shutdown)
    /\ (FailedTasks # {}) ~>
           /\ server \in {"stopped", "failed"}
           /\ \A s \in Sinks : sink[s] = "failed" \/ DrainedAndSealed(s)
           /\ shipper = "failed" \/ ShipperDone

\* Handler r has just enqueued its report on sink s while the server drains:
\* the signal is set, the write succeeded, and the record is the only one
\* queued on a sink that has lost none.
DrainEnqueue(r, s) ==
    /\ shutdown
    /\ req[r].pc = "done"
    /\ req[r].sent # <<>>
    /\ req[r].sent[Len(req[r].sent)] = "ok"
    /\ s = ReportSink(req[r].kind)
    /\ Len(queue[s]) = 1
    /\ dropped[s] = 0

\* Once the signal is set no request is accepted, and the server stops only
\* with no handler in flight.
ListenerDrains ==
    /\ [][shutdown => \A r \in Handlers : req[r].pc = "idle" => req'[r].pc = "idle"]_vars
    /\ [](server = "stopped" => InFlight = {})

\* A shipper that has observed the signal starts no upload, and it returns
\* only with no upload in flight; an upload ends only with its segment
\* acknowledged and deleted.
ShipperDrains ==
    /\ [][shipper # "running" =>
              \A u \in Uploads : task[u] = NoUpload => task'[u] = NoUpload]_vars
    /\ [][\A u \in Uploads :
              (task[u] # NoUpload /\ task'[u] = NoUpload) =>
                  (task[u].seg \in deleted' /\ Confirmed(task[u].seg))]_vars
    /\ [](shipper = "exited" => ShipperDone)

C20_ReturnsFirstError ==
    /\ returned = Ok => server = "stopped" /\ ShipperDone /\ \A s \in Sinks : sink[s] = "closed"
    /\ FailedTasks # {} => returned.status = "err" /\ FailedTasks = {returned.error}
    /\ returned.status = "err" => returned.error \in FailedTasks

\* A sink has failed after the server had stopped cleanly: run returned the
\* sink's error.
C20_Witness ==
    /\ server = "stopped"
    /\ \E s \in Sinks : returned = Err(s)

\* The calls of generate_id that have returned.
Returned == {r \in Handlers : req[r].pc = "returned"}

\* What a call was given: the data, the received timestamp and the key.
InputsOf(h) == <<h.event.payload, h.timestamp, h.event.pub_key>>

BytesOf(h) == <<h.event.payload, DateTimeToString(h.timestamp), h.event.pub_key>>

\* C19: two calls whose data, timestamp text or key differ in a byte return
\* different digests.
C19_Injective ==
    \A r, q \in Returned :
        BytesOf(req[r]) # BytesOf(req[q]) => req[r].event_id # req[q].event_id

\* C24: the id an ingest report computes for itself is the id its inner
\* report computes when handed the ingest report's received timestamp, and
\* both are the SHA-256 of the data, then the text of the timestamp, then the
\* key bytes.
C24_IdFunctionsAgree ==
    \A r \in Returned :
        LET h == req[r]
        IN  /\ h.event_id = generate_id(h.event.payload, h.timestamp, h.event.pub_key)
            /\ h.event_id =
                   Sha256(h.event.payload \o DateTimeToString(h.timestamp) \o h.event.pub_key)

\* An ingest report with data, a fraction in its timestamp and a key has
\* computed its id.
C24_Witness ==
    \E r \in Returned :
        /\ req[r].event.payload # <<>>
        /\ req[r].timestamp.ms % 1000 # 0
        /\ req[r].event_id.alg = "sha256"

\* C22: a verified speedtest or heartbeat request is written twice, the raw
\* request to the request sink and then its IngestReport to the report sink:
\* the handler stands at the second write with one write behind it, whatever
\* its outcome, and answers with two behind it; a rejected request has none.
\* The record of a write that succeeded is on its sink, and the report is the
\* request with the handler's clock reading.
C22_TwoWritesInOrder ==
    mode = "mobile" =>
        \A r \in InFlight :
            LET h == req[r]
            IN  /\ h.pc = "write_req" => h.verified /\ h.sent = <<>>
                /\ h.pc = "write_report" => h.verified /\ Len(h.sent) = 1
                /\ (h.pc = "done" /\ h.verified) => Len(h.sent) = 2
                /\ (h.pc = "done" /\ ~h.verified) => h.sent = <<>>
                /\ (Len(h.sent) >= 1 /\ h.sent[1] = "ok") =>
                       \E i \in 1..Len(enqLog[ReqSink(h.kind)]) :
                           enqLog[ReqSink(h.kind)][i] = h.event
                /\ (Len(h.sent) = 2 /\ h.sent[2] = "ok") =>
                       /\ enqLog[ReportSink(h.kind)] # <<>>
                       /\ enqLog[ReportSink(h.kind)][Len(enqLog[ReportSink(h.kind)])]
                              = IngestReport(h.timestamp, h.event)

\* The first write of a request found its sink closed and the second went
\* through: the report sink has a record the request sink has not.
C22_Witness ==
    /\ mode = "mobile"
    /\ \E r \in InFlight :
          /\ req[r].pc = "done"
          /\ req[r].sent = <<"closed", "ok">>
          /\ Len(enqLog[ReportSink(req[r].kind)]) > Len(enqLog[ReqSink(req[r].kind)])

\* C23: a request whose authorization header is missing or is not the
\* configured token is answered as unauthenticated and no handler runs for
\* it: no clock is read, nothing is verified, no id is made, nothing is
\* written, and the step that turns it away leaves every sink and the clock
\* as they were.
C23_UnauthenticatedRejected ==
    /\ [](\A r \in InFlight :
              req[r].auth # ApiToken =>
                  /\ req[r].pc = "done"
                  /\ req[r].resp = ErrResponse("No valid auth token")
                  /\ req[r].timestamp = NoTime
                  /\ ~req[r].verified
                  /\ req[r].event_id = NoId
                  /\ req[r].sent = <<>>)
    /\ [](\A r \in InFlight :
              req[r].resp.status = "No valid auth token" => req[r].auth # ApiToken)
    /\ [][\A r \in Handlers :
              (req[r].pc = "idle" /\ req'[r].auth # ApiToken /\ req'[r].pc # "idle") =>
                  UNCHANGED <<sinkVars, now>>]_vars

\* A request with another token than the configured one has been turned
\* away, and so has none been handed to a handler.
C23_Witness ==
    \E r \in InFlight :
        /\ req[r].auth \notin {NoAuth, ApiToken}
        /\ req[r].pc = "done"
        /\ req[r].resp.status = "No valid auth token"

\* No task of run has been polled: the server serves nothing, no sink and no
\* shipper runs, and nothing they would have done is there.
NothingStarted ==
    /\ server \in {"unresolved", "resolved", "built"}
    /\ \A s \in AllSinks : sink[s] \in {"uncreated", "created"}
    /\ shipper \in {"unbuilt", "built"}
    /\ \A r \in Handlers : req[r] = Idle
    /\ \A s \in AllSinks :
          queue[s] = <<>> /\ enqLog[s] = <<>> /\ open[s] = NoSegment /\ sealed[s] = <<>>
    /\ \A u \in Uploads : task[u] = NoUpload

\* run has returned the error of a setup step.
SetupFailed == returned.status = "err" /\ returned.error \in SetupSteps

\* C21: when a step of the setup fails run returns its error with no task
\* started, and with the step's successors not taken; until the setup is
\* through, nothing is served and no sink or shipper runs.
C21_SetupFailureStartsNothing ==
    /\ SetupFailed => NothingStarted /\ server # "built"
    /\ server \in {"unresolved", "resolved", "built"} => NothingStarted
    /\ returned = Err("listen_addr") => server = "unresolved" /\ shipper = "unbuilt"
    /\ returned = Err("FileUpload") => \A s \in AllSinks : sink[s] = "uncreated"
    /\ server \in {"built", "serving"} =>
          /\ shipper # "unbuilt"
          /\ \A s \in Sinks : sink[s] # "uncreated"

\* The mobile server found no API_TOKEN after its uploader and its four sinks
\* were built: run has returned that error.
C21_Witness ==
    /\ mode = "mobile"
    /\ returned = Err("API_TOKEN")
    /\ shipper = "built"
    /\ \A s \in Sinks : sink[s] = "created"

====
